---- MODULE Spec2Model ----
(***************************************************************************)
(* Zenith overlay: the Electron host shell (window owner + foreground      *)
(* window poller) and the display layer (IntelligenceHUD React component). *)
(* Strings are TLA+ strings; JavaScript values that may be undefined are   *)
(* records [t |-> "undefined" | "string", v |-> <string>].                 *)
(***************************************************************************)
EXTENDS Integers, Sequences, FiniteSets, TLC

VARIABLES
    \* ---- display layer (IntelligenceHUD component, one renderer) ----
    intent,        \* useState('Idle')
    appContext,    \* useState('Detecting...')
    confidence,    \* useState(0)
    mounted,       \* the component's effects have run
    interval,      \* the confidence setInterval is active
    listeners,     \* number of 'active-window-change' listeners on ipcRenderer
    bridge,        \* window.require is available
    hovering,      \* the pointer is over the HUD root
    \* ---- channels between the two ----
    ctrlQueue,     \* 'set-ignore-mouse-events' payloads sent, not yet handled
    notifQueue,    \* 'active-window-change' payloads sent, not yet handled
    \* ---- host shell (Electron main process) ----
    mainWindow,    \* "undefined", "null" or "window" (the window of the latest createWindow)
    created,       \* number of createWindow calls so far
    openWindows,   \* the createWindow calls whose BrowserWindow is open
    activeWin,     \* per createWindow call: "pending", "loaded" or "failed"
    hitTest,       \* per window: [ignore |-> BOOLEAN, forward |-> BOOLEAN]
    inflight,      \* OS queries awaited by a poll tick: records [inst, tick]
    ticks,         \* number of poll timer firings so far
    crashed,       \* an exception escaped a host callback
    darwin,        \* process.platform === 'darwin'
    quit,          \* app.quit() has been called
    serve,         \* the dynamic import of 'electron-serve': "pending" or "loaded"
    packaged,      \* app.isPackaged
    content,       \* what the latest window was told to load: "none", "dev-server", "bundle" or "nothing"
    \* ---- history (observation only) ----
    sentCtl,       \* every control message this renderer has sent
    pointerLog,    \* every pointer event on this renderer's HUD root
    sentBy,        \* per createWindow call: notifications its poll timer has sent
    sentTicks,     \* the poll ticks whose snapshot was sent, in the order of sending
    lastData,      \* payload of the most recently handled notification
    repeated,      \* the last two handled notifications carried the same payload
    handled,       \* notifications this renderer has handled: 0, 1, or 2 for more
    ticked,        \* the confidence interval of this renderer has fired
    last           \* the step last taken

hudVars  == <<intent, appContext, confidence, mounted, interval, listeners, bridge, hovering>>
chanVars == <<ctrlQueue, notifQueue>>
hostVars == <<mainWindow, created, openWindows, activeWin, hitTest, inflight, ticks, crashed, darwin, quit,
             serve, packaged, content>>
histVars == <<sentCtl, pointerLog, sentBy, sentTicks, lastData, repeated, handled, ticked, last>>
vars     == <<hudVars, chanVars, hostVars, histVars>>

----------------------------------------------------------------------------
\* Bounds of the model

MaxPointer == 3
MaxTicks == 2
MaxWindows == 2
MaxMounts == 2

Windows == 1..MaxWindows

----------------------------------------------------------------------------
\* JavaScript values and string functions

Undefined == [t |-> "undefined", v |-> ""]
Str(s) == [t |-> "string", v |-> s]

\* a || b on a possibly-undefined string a and a string literal b
OrElse(a, b) == IF a.t = "string" /\ a.v # "" THEN a.v ELSE b

UpperCase == "ABCDEFGHIJKLMNOPQRSTUVWXYZ"
LowerCase == "abcdefghijklmnopqrstuvwxyz"

\* the lower-case letter of every upper-case letter
LowerOf ==
    [c \in {SubSeq(UpperCase, i, i) : i \in 1..Len(UpperCase)} |->
        LET i == CHOOSE j \in 1..Len(UpperCase) : SubSeq(UpperCase, j, j) = c
        IN SubSeq(LowerCase, i, i)]

toLowerChar(c) == IF c \in DOMAIN LowerOf THEN LowerOf[c] ELSE c

RECURSIVE toLowerCase(_)
toLowerCase(s) ==
    IF Len(s) = 0 THEN ""
    ELSE toLowerChar(SubSeq(s, 1, 1)) \o toLowerCase(SubSeq(s, 2, Len(s)))

\* String.prototype.includes: a case-sensitive substring test
includes(s, k) ==
    \E i \in 1..(Len(s) - Len(k) + 1) : SubSeq(s, i, i + Len(k) - 1) = k

----------------------------------------------------------------------------
\* Display layer: pure parts of IntelligenceHUD

\* the heuristic context switch of the 'active-window-change' listener
\* variant: the chain with the 'chrome' branch ahead of the 'code' branch
ClassifyChromeFirst(appName) ==
    LET lower == toLowerCase(appName)
    IN IF includes(lower, "chrome") \/ includes(appName, "browser")
       THEN "Browsing / Research"
       ELSE IF includes(lower, "code") \/ includes(appName, "Terminal")
       THEN "Coding"
       ELSE IF includes(lower, "slack") \/ includes(appName, "whatsapp")
       THEN "Communication"
       ELSE IF includes(lower, "notepad") \/ includes(appName, "text")
       THEN "Drafting"
       ELSE IF includes(lower, "calc")
       THEN "Calculation"
       ELSE "General Task"

\* variant: every keyword tested against the lower-cased name
ClassifyAnyCase(appName) ==
    LET lower == toLowerCase(appName)
    IN IF includes(lower, "code") \/ includes(lower, "terminal")
       THEN "Coding"
       ELSE IF includes(lower, "chrome") \/ includes(lower, "browser")
       THEN "Browsing / Research"
       ELSE IF includes(lower, "slack") \/ includes(lower, "whatsapp")
       THEN "Communication"
       ELSE IF includes(lower, "notepad") \/ includes(lower, "text")
       THEN "Drafting"
       ELSE IF includes(lower, "calc")
       THEN "Calculation"
       ELSE "General Task"

\* (lower is appName.toLowerCase(), which each branch of the source recomputes)
Classify(appName) ==
    LET lower == toLowerCase(appName)
    IN IF includes(lower, "code") \/ includes(appName, "Terminal")
       THEN "Coding"
       ELSE IF includes(lower, "chrome") \/ includes(appName, "browser")
       THEN "Browsing / Research"
       ELSE IF includes(lower, "slack") \/ includes(appName, "whatsapp")
       THEN "Communication"
       ELSE IF includes(lower, "notepad") \/ includes(appName, "text")
       THEN "Drafting"
       ELSE IF includes(lower, "calc")
       THEN "Calculation"
       ELSE "General Task"

\* variant: the name taken from data.owner with no fallback
AppNameOfNoFallback(data) == data.owner.v

\* the name the listener displays and classifies: data.owner || "Unknown"
AppNameOf(data) == OrElse(data.owner, "Unknown")

\* variant: the listener keeps the intent it set first (memory of prior labels)
OnActiveWindowChangeSticky(hud, data) ==
    [hud EXCEPT !.appContext = OrElse(data.owner, "Unknown"),
                !.intent = IF hud.intent = "Idle"
                           THEN Classify(OrElse(data.owner, "Unknown"))
                           ELSE hud.intent]

\* variant: the listener falls back to 'Idle' when the application did not change
OnActiveWindowChangeToggle(hud, data) ==
    [hud EXCEPT !.appContext = OrElse(data.owner, "Unknown"),
                !.intent = IF hud.appContext = OrElse(data.owner, "Unknown")
                             /\ hud.intent # "Idle"
                           THEN "Idle"
                           ELSE Classify(OrElse(data.owner, "Unknown"))]

\* variant: the listener stores the name cut to the width of the display
OnActiveWindowChangeTruncated(hud, data) ==
    LET name == OrElse(data.owner, "Unknown")
    IN [hud EXCEPT !.appContext = IF Len(name) > 6 THEN SubSeq(name, 1, 6) ELSE name,
                   !.intent = Classify(name)]

\* variant: the listener also restarts the confidence meter
OnActiveWindowChangeResetsConfidence(hud, data) ==
    [hud EXCEPT !.appContext = OrElse(data.owner, "Unknown"),
                !.intent = Classify(OrElse(data.owner, "Unknown")),
                !.confidence = 0]

\* the listener applied to the component state hud = [intent, appContext, confidence]
OnActiveWindowChange(hud, data) ==
    [hud EXCEPT !.appContext = AppNameOf(data),
                !.intent = Classify(AppNameOf(data))]

Min(a, b) == IF a < b THEN a ELSE b
Max(a, b) == IF a > b THEN a ELSE b

\* variant: the updater without the lower clamp
ConfidenceUpdateNoFloor(prev, delta) == Min(100, prev + delta)

\* variant: the jitter scaled to twice its width
ConfidenceUpdateWide(prev, delta) == Min(100, Max(80, prev + 2 * delta))

\* the updater passed to setConfidence; delta stands for (Math.random() - 0.5) * 10
ConfidenceUpdate(prev, delta) == Min(100, Max(80, prev + delta))

\* values of (Math.random() - 0.5) * 10, in whole units
Deltas == -5..5

\* variant: setIgnoreMouseEvents sends the negated flag
SetIgnoreMouseEventsNegated(queue, ignore) ==
    IF bridge
    THEN Append(queue, [channel |-> "set-ignore-mouse-events", arg |-> ~ignore])
    ELSE queue

\* variant: setIgnoreMouseEvents sends without testing window.require
SetIgnoreMouseEventsUnguarded(queue, ignore) ==
    Append(queue, [channel |-> "set-ignore-mouse-events", arg |-> ignore])

\* setIgnoreMouseEvents: the control queue after the call
SetIgnoreMouseEvents(queue, ignore) ==
    IF bridge
    THEN Append(queue, [channel |-> "set-ignore-mouse-events", arg |-> ignore])
    ELSE queue

\* the control messages sent by a step that takes the queue from before to after
Sent(log, before, after) ==
    IF Len(after) > Len(before) THEN Append(log, after[Len(after)]) ELSE log

HudState == [intent |-> intent, appContext |-> appContext, confidence |-> confidence]

\* the useState initial values
InitialHud == [intent |-> "Idle", appContext |-> "Detecting...", confidence |-> 0]

----------------------------------------------------------------------------
\* Display layer: actions

\* the component's two effects: start the confidence interval, register the
\* listener when the bridge exists, then setIgnoreMouseEvents(true)
Mount ==
    /\ ~mounted
    /\ mounted' = TRUE
    /\ interval' = TRUE
    /\ listeners' = IF bridge THEN listeners + 1 ELSE listeners
    /\ ctrlQueue' = SetIgnoreMouseEvents(ctrlQueue, TRUE)
    /\ sentCtl' = Sent(sentCtl, ctrlQueue, ctrlQueue')
    /\ last' = "mount"
    /\ UNCHANGED <<intent, appContext, confidence, bridge, hovering, notifQueue,
                   hostVars, pointerLog, sentBy, sentTicks, lastData, repeated, handled, ticked>>

\* a firing of the 1000 ms interval
ConfidenceTick(delta) ==
    /\ interval
    /\ confidence' = ConfidenceUpdate(confidence, delta)
    /\ ticked' = TRUE
    /\ last' = "confidence"
    /\ UNCHANGED <<intent, appContext, mounted, interval, listeners, bridge, hovering,
                   chanVars, hostVars, sentCtl, pointerLog, sentBy, sentTicks, lastData, repeated, handled>>

\* the 'active-window-change' listeners run on payload data: the one of the
\* mounted instance sets its state; those left behind by unmounted instances
\* call the setters of a component that no longer exists
Receive(data) ==
    /\ listeners >= 1
    /\ IF mounted
       THEN /\ LET hud == OnActiveWindowChange(HudState, data)
               IN /\ intent' = hud.intent
                  /\ appContext' = hud.appContext
                  /\ confidence' = hud.confidence
            /\ repeated' = (lastData = <<data>>)
            /\ lastData' = <<data>>
            /\ handled' = IF handled = 0 THEN 1 ELSE 2
            /\ last' = "notify"
       ELSE /\ UNCHANGED <<intent, appContext, confidence, repeated, lastData, handled>>
            /\ last' = "notify-stale"
    /\ UNCHANGED <<mounted, interval, listeners, bridge, hovering, ctrlQueue,
                   hostVars, sentCtl, pointerLog, sentBy, sentTicks, ticked>>

\* variant: the cleanup returns without clearing the interval
CleanupNoClear(effects) == effects

\* the cleanup function of the first effect, on effects = [interval, listeners]:
\* clearInterval(interval), and nothing about the listener
Cleanup(effects) == [effects EXCEPT !.interval = FALSE]

\* the component unmounts: React runs the cleanup and discards the instance,
\* so the next instance starts from the useState initial values
Unmount ==
    /\ mounted
    /\ listeners < MaxMounts
    /\ mounted' = FALSE
    /\ LET after == Cleanup([interval |-> interval, listeners |-> listeners])
       IN /\ interval' = after.interval
          /\ listeners' = after.listeners
    /\ intent' = InitialHud.intent
    /\ appContext' = InitialHud.appContext
    /\ confidence' = InitialHud.confidence
    /\ hovering' = FALSE
    /\ lastData' = <<>>
    /\ repeated' = FALSE
    /\ handled' = 0
    /\ ticked' = FALSE
    /\ last' = "unmount"
    /\ UNCHANGED <<bridge, chanVars, hostVars, sentCtl, pointerLog, sentBy, sentTicks>>

\* onMouseEnter of the HUD root
PointerEnter ==
    /\ mounted /\ ~hovering
    /\ Len(pointerLog) < MaxPointer
    /\ hovering' = TRUE
    /\ ctrlQueue' = SetIgnoreMouseEvents(ctrlQueue, FALSE)
    /\ sentCtl' = Sent(sentCtl, ctrlQueue, ctrlQueue')
    /\ pointerLog' = Append(pointerLog, "enter")
    /\ last' = "enter"
    /\ UNCHANGED <<intent, appContext, confidence, mounted, interval, listeners, bridge,
                   notifQueue, hostVars, sentBy, sentTicks, lastData, repeated, handled, ticked>>

\* onMouseLeave of the HUD root
PointerLeave ==
    /\ mounted /\ hovering
    /\ Len(pointerLog) < MaxPointer
    /\ hovering' = FALSE
    /\ ctrlQueue' = SetIgnoreMouseEvents(ctrlQueue, TRUE)
    /\ sentCtl' = Sent(sentCtl, ctrlQueue, ctrlQueue')
    /\ pointerLog' = Append(pointerLog, "leave")
    /\ last' = "leave"
    /\ UNCHANGED <<intent, appContext, confidence, mounted, interval, listeners, bridge,
                   notifQueue, hostVars, sentBy, sentTicks, lastData, repeated, handled, ticked>>

----------------------------------------------------------------------------
\* Host shell: main process

\* results the OS foreground-window query can resolve to
FgResults ==
    { [title |-> "main.ts", owner |-> [name |-> Str("Code.exe"), path |-> "C:/Code.exe"]],
      [title |-> "Chat", owner |-> [name |-> Str("WhatsApp"), path |-> "/Applications/WhatsApp.app"]],
      [title |-> "", owner |-> [name |-> Undefined, path |-> ""]] }

\* variant: the payload carries the owner's path as its owner
PayloadOwnerIsPath(result) ==
    [title |-> result.title, owner |-> Str(result.owner.path), app |-> result.owner.path]

\* the payload the poll tick builds from a query result
Payload(result) ==
    [title |-> result.title, owner |-> result.owner.name, app |-> result.owner.path]

\* a renderer process starts or ends: the component state is (back to) the
\* useState initial values, nothing is mounted, no message is in flight
FreshRenderer ==
    /\ intent' = InitialHud.intent
    /\ appContext' = InitialHud.appContext
    /\ confidence' = InitialHud.confidence
    /\ mounted' = FALSE
    /\ interval' = FALSE
    /\ listeners' = 0
    /\ hovering' = FALSE
    /\ ctrlQueue' = <<>>
    /\ notifQueue' = <<>>
    /\ sentCtl' = <<>>
    /\ pointerLog' = <<>>
    /\ lastData' = <<>>
    /\ repeated' = FALSE
    /\ handled' = 0
    /\ ticked' = FALSE

\* the initial load of createWindow: the development server when not packaged,
\* else serve({directory: 'out'}) when serve is set, else only an error is logged
InitialLoad(isPackaged, srv) ==
    IF ~isPackaged THEN "dev-server"
    ELSE IF srv = "loaded" THEN "bundle"
    ELSE "nothing"

\* the dynamic import of 'electron-serve', started when main.js loads, resolves
ServeImport ==
    /\ ~quit /\ serve = "pending"
    /\ serve' = "loaded"
    /\ last' = "serve-loaded"
    /\ UNCHANGED <<hudVars, chanVars, mainWindow, created, openWindows, activeWin, hitTest,
                   inflight, ticks, crashed, darwin, quit, packaged, content,
                   sentCtl, pointerLog, sentBy, sentTicks, lastData, repeated, handled, ticked>>

\* createWindow(): a new BrowserWindow with its initial load, click-through
\* with forwarding, the 'active-win' import started and the poll timer set
CreateWindow ==
    /\ created < MaxWindows
    /\ created' = created + 1
    /\ openWindows' = openWindows \cup {created + 1}
    /\ mainWindow' = "window"
    /\ content' = InitialLoad(packaged, serve)
    /\ hitTest' = [ignore |-> TRUE, forward |-> TRUE]
    /\ activeWin' = [activeWin EXCEPT ![created + 1] = "pending"]
    /\ FreshRenderer
    /\ UNCHANGED <<bridge, inflight, ticks, crashed, darwin, quit, serve, packaged, sentBy, sentTicks>>

\* app.on('ready', createWindow)
Ready ==
    /\ ~quit /\ created = 0
    /\ CreateWindow
    /\ last' = "ready"

\* variant: 'activate' creates a window whenever it fires
ActivateGuardAlways == TRUE

\* the condition of the 'activate' handler: mainWindow === null
ActivateGuard == mainWindow = "null"

\* app.on('activate'): a new window only when the previous one was closed
Activate ==
    /\ ~quit /\ darwin /\ created >= 1
    /\ ActivateGuard
    /\ CreateWindow
    /\ last' = "activate"

\* the window is closed: its renderer goes away, the 'closed' handler nulls
\* mainWindow, and 'window-all-closed' quits the app unless on darwin
CloseWindow ==
    /\ ~quit /\ mainWindow = "window"
    /\ mainWindow' = "null"
    /\ openWindows' = openWindows \ {created}
    /\ content' = "none"
    /\ quit' = (~darwin /\ openWindows' = {})
    /\ FreshRenderer
    /\ last' = "close"
    /\ UNCHANGED <<bridge, created, activeWin, hitTest, inflight, ticks, crashed, darwin,
                   serve, packaged, sentBy, sentTicks>>

\* the dynamic import of 'active-win' of createWindow call i settles
ActiveWinImport(i, ok) ==
    /\ ~quit /\ i \in 1..created
    /\ activeWin[i] = "pending"
    /\ activeWin' = [activeWin EXCEPT ![i] = IF ok THEN "loaded" ELSE "failed"]
    /\ last' = IF ok THEN "import-ok" ELSE "import-failed"
    /\ UNCHANGED <<hudVars, chanVars, mainWindow, created, openWindows, serve, packaged, content, hitTest, inflight, ticks,
                   crashed, darwin, quit, sentCtl, pointerLog, sentBy, sentTicks, lastData, repeated, handled, ticked>>

\* variant: the handler ignores the payload and always releases the mouse
IpcMessageAlwaysIgnore(mode, channel, arg) ==
    IF channel = "set-ignore-mouse-events"
    THEN [ignore |-> TRUE, forward |-> TRUE]
    ELSE mode

\* variant: the handler does not test the channel
IpcMessageAnyChannel(mode, channel, arg) == [ignore |-> arg, forward |-> TRUE]

\* the 'ipc-message' handler of the window on (channel, arg)
IpcMessage(mode, channel, arg) ==
    IF channel = "set-ignore-mouse-events"
    THEN [ignore |-> arg, forward |-> TRUE]
    ELSE mode

\* an 'ipc-message' on another channel reaches the handler of the open window
OtherIpcMessage(arg) ==
    /\ ~quit /\ mainWindow = "window"
    /\ hitTest' = IpcMessage(hitTest, "other-channel", arg)
    /\ last' = IF arg THEN "other-ipc-true" ELSE "other-ipc-false"
    /\ UNCHANGED <<hudVars, chanVars, mainWindow, created, openWindows, serve, packaged, content, activeWin, inflight, ticks,
                   crashed, darwin, quit, sentCtl, pointerLog, sentBy, sentTicks,
                   lastData, repeated, handled, ticked>>

\* the host handles the oldest control message
HandleControl ==
    /\ ~quit /\ mainWindow = "window"
    /\ ctrlQueue # <<>>
    /\ hitTest' = IpcMessage(hitTest, Head(ctrlQueue).channel, Head(ctrlQueue).arg)
    /\ ctrlQueue' = Tail(ctrlQueue)
    /\ last' = "control"
    /\ UNCHANGED <<hudVars, notifQueue, mainWindow, created, openWindows, serve, packaged, content, activeWin, inflight, ticks,
                   crashed, darwin, quit, sentCtl, pointerLog, sentBy, sentTicks, lastData, repeated, handled, ticked>>

\* variant: no try/catch, an exception thrown in the tick escapes
PollCatchMissing(threw) == threw

\* the try/catch around the body of a poll tick: whether an exception thrown
\* inside it escapes the timer callback
PollCatch(threw) == FALSE

\* the body of the poll tick after the awaited query resolved to result
\* (<<>> for nothing): the notification queue after it, and whether it threw
PollSend(queue, result) ==
    IF result = <<>>
    THEN [queue |-> queue, threw |-> FALSE]
    ELSE IF mainWindow # "window"
    THEN [queue |-> queue, threw |-> TRUE]
    ELSE [queue |-> Append(queue, Payload(result[1])), threw |-> FALSE]

\* variant: the tick tests the window only
PollGuardWindowOnly(i) == mainWindow = "window"

\* the condition of the poll tick of createWindow call i: mainWindow && activeWin
PollGuard(i) == mainWindow = "window" /\ activeWin[i] = "loaded"

\* the poll timers that fire: setInterval is called by every createWindow and
\* clearInterval by nothing, so each runs until the process ends
ActiveTimers == IF quit THEN {} ELSE 1..created

\* the poll timer of createWindow call i fires: the query is issued only with
\* a window and a loaded module
PollTick(i) ==
    /\ i \in ActiveTimers
    /\ ticks < MaxTicks
    /\ ticks' = ticks + 1
    /\ IF PollGuard(i)
       THEN /\ inflight' = inflight \cup {[inst |-> i, tick |-> ticks + 1]}
            /\ last' = "tick"
       ELSE /\ inflight' = inflight
            /\ last' = "tick-skipped"
    /\ UNCHANGED <<hudVars, chanVars, mainWindow, created, openWindows, serve, packaged, content, activeWin, hitTest,
                   crashed, darwin, quit, sentCtl, pointerLog, sentBy, sentTicks, lastData, repeated, handled, ticked>>

\* the awaited query of a tick resolves, to a result or to nothing
QueryResolves(q, result) ==
    /\ ~quit /\ q \in inflight
    /\ inflight' = inflight \ {q}
    /\ LET out == PollSend(notifQueue, result)
       IN /\ notifQueue' = out.queue
          /\ crashed' = (crashed \/ PollCatch(out.threw))
          /\ sentBy' = [sentBy EXCEPT ![q.inst] = @ + Len(out.queue) - Len(notifQueue)]
          /\ sentTicks' = IF Len(out.queue) > Len(notifQueue)
                          THEN Append(sentTicks, q.tick) ELSE sentTicks
          /\ last' = IF result = <<>> THEN "query-nothing"
                     ELSE IF out.threw THEN "query-send-threw" ELSE "query-result"
    /\ UNCHANGED <<hudVars, ctrlQueue, mainWindow, created, openWindows, serve, packaged, content, activeWin, hitTest, ticks,
                   darwin, quit, sentCtl, pointerLog, lastData, repeated, handled, ticked>>

\* the awaited query of a tick rejects
QueryThrows(q) ==
    /\ ~quit /\ q \in inflight
    /\ inflight' = inflight \ {q}
    /\ crashed' = (crashed \/ PollCatch(TRUE))
    /\ last' = "query-threw"
    /\ UNCHANGED <<hudVars, chanVars, mainWindow, created, openWindows, serve, packaged, content, activeWin, hitTest, ticks,
                   darwin, quit, sentCtl, pointerLog, sentBy, sentTicks, lastData, repeated, handled, ticked>>

\* the renderer receives the oldest notification and runs the listener
Deliver ==
    /\ notifQueue # <<>>
    /\ Receive(Head(notifQueue))
    /\ notifQueue' = Tail(notifQueue)

\* a notification that reaches a renderer with no listener is lost
DropNotification ==
    /\ notifQueue # <<>>
    /\ listeners = 0
    /\ notifQueue' = Tail(notifQueue)
    /\ last' = "dropped"
    /\ UNCHANGED <<hudVars, ctrlQueue, hostVars, sentCtl, pointerLog, sentBy, sentTicks,
                   lastData, repeated, handled, ticked>>

\* the component mounts in the renderer of the open window
MountInWindow ==
    /\ mainWindow = "window"
    /\ Mount

----------------------------------------------------------------------------
\* Initial state: the main process has loaded main.js (no window yet) and no
\* renderer exists, so the component state is at its useState initial values

InitCommon ==
    /\ intent = InitialHud.intent
    /\ appContext = InitialHud.appContext
    /\ confidence = InitialHud.confidence
    /\ mounted = FALSE
    /\ interval = FALSE
    /\ listeners = 0
    /\ hovering = FALSE
    /\ ctrlQueue = <<>>
    /\ notifQueue = <<>>
    /\ mainWindow = "undefined"
    /\ created = 0
    /\ openWindows = {}
    /\ serve = "pending"
    /\ content = "none"
    /\ activeWin = [i \in Windows |-> "none"]
    /\ hitTest = [ignore |-> FALSE, forward |-> FALSE]
    /\ inflight = {}
    /\ ticks = 0
    /\ crashed = FALSE
    /\ quit = FALSE
    /\ sentCtl = <<>>
    /\ pointerLog = <<>>
    /\ sentBy = [i \in Windows |-> 0]
    /\ sentTicks = <<>>
    /\ lastData = <<>>
    /\ repeated = FALSE
    /\ handled = 0
    /\ ticked = FALSE
    /\ last = "init"

\* inside the Electron window (nodeIntegration: true) window.require exists
Init ==
    /\ InitCommon
    /\ bridge = TRUE
    /\ darwin \in BOOLEAN
    /\ packaged \in BOOLEAN

\* the whole system: host shell, channels and display layer (the confidence
\* interval, which touches nothing but confidence, is composed in SpecHUD)
Next ==
    \/ Ready
    \/ Activate
    \/ CloseWindow
    \/ \E i \in Windows, ok \in BOOLEAN : ActiveWinImport(i, ok)
    \/ HandleControl
    \/ \E i \in Windows : PollTick(i)
    \/ \E q \in inflight, r \in {<<>>} \cup {<<x>> : x \in FgResults} : QueryResolves(q, r)
    \/ \E q \in inflight : QueryThrows(q)
    \/ Deliver
    \/ DropNotification
    \/ MountInWindow
    \/ Unmount
    \/ ServeImport
    \/ PointerEnter
    \/ PointerLeave

Spec == Init /\ [][Next]_vars

\* the notification path alone: window lifecycle, poller, delivery, listener
NextPoll ==
    \/ Ready
    \/ Activate
    \/ CloseWindow
    \/ \E i \in Windows, ok \in BOOLEAN : ActiveWinImport(i, ok)
    \/ \E i \in Windows : PollTick(i)
    \/ \E q \in inflight, r \in {<<>>} \cup {<<x>> : x \in FgResults} : QueryResolves(q, r)
    \/ \E q \in inflight : QueryThrows(q)
    \/ Deliver
    \/ DropNotification
    \/ MountInWindow

SpecPoll == Init /\ [][NextPoll]_vars

\* the control path alone: window lifecycle (with the module import that
\* createWindow starts), pointer events, hit-test mode
NextControl ==
    \/ Ready
    \/ Activate
    \/ CloseWindow
    \/ \E i \in Windows, ok \in BOOLEAN : ActiveWinImport(i, ok)
    \/ MountInWindow
    \/ PointerEnter
    \/ PointerLeave
    \/ HandleControl

SpecControl == Init /\ [][NextControl]_vars

\* the window's initial load: the import of 'electron-serve' against the
\* window lifecycle, with the control path of the window
NextLoad ==
    \/ ServeImport
    \/ Ready
    \/ Activate
    \/ CloseWindow
    \/ \E i \in Windows, ok \in BOOLEAN : ActiveWinImport(i, ok)
    \/ MountInWindow
    \/ PointerEnter
    \/ PointerLeave
    \/ HandleControl

SpecLoad == Init /\ [][NextLoad]_vars

\* one window from creation on: poller, notifications, pointer events and
\* every 'ipc-message' the window's handler can receive
NextSession ==
    \/ Ready
    \/ \E i \in Windows, ok \in BOOLEAN : ActiveWinImport(i, ok)
    \/ \E i \in Windows : PollTick(i)
    \/ \E q \in inflight, r \in {<<>>} \cup {<<x>> : x \in FgResults} : QueryResolves(q, r)
    \/ \E q \in inflight : QueryThrows(q)
    \/ Deliver
    \/ DropNotification
    \/ MountInWindow
    \/ PointerEnter
    \/ PointerLeave
    \/ HandleControl
    \/ \E arg \in BOOLEAN : OtherIpcMessage(arg)

SpecSession == Init /\ [][NextSession]_vars

----------------------------------------------------------------------------
\* The display layer on its own: the component rendered with or without the
\* bridge, the 'active-window-change' event emitted on ipcRenderer with data

\* payloads the host can send
HostPayloads == {Payload(r) : r \in FgResults}

\* owner names built from the keywords of the heuristic in several letter cases
Tokens ==
    { "", "code", "Code", "Terminal", "terminal", "Chrome", "browser", "Browser",
      "Slack", "whatsapp", "WhatsApp", "Notepad", "text", "Text", "Calc", "Spotify" }

OwnerNames ==
    { "Visual Studio Code", "Google Chrome", "Slack", "Notepad", "Calculator",
      "Spotify", "Code.exe", "WhatsApp", "TextEdit", "Windows Terminal",
      "Brave Browser", "Unknown" }
    \cup { a \o b : a, b \in Tokens }

WidePayloads ==
    { [title |-> "", owner |-> o, app |-> ""] : o \in {Undefined} \cup {Str(n) : n \in OwnerNames} }

\* ipcRenderer emits 'active-window-change' with data
Notify(data) ==
    /\ Receive(data)
    /\ UNCHANGED notifQueue

InitHUD ==
    /\ InitCommon
    /\ bridge \in BOOLEAN
    /\ darwin = FALSE
    /\ packaged = FALSE

NextHUD ==
    \/ Mount
    \/ \E delta \in Deltas : ConfidenceTick(delta)
    \/ \E data \in HostPayloads : Notify(data)
    \/ PointerEnter
    \/ PointerLeave

SpecHUD == InitHUD /\ [][NextHUD]_vars

\* the component's lifetime: mount, unmount and remount in one renderer, with
\* the confidence timer and the notifications
NextLifecycle ==
    \/ Mount
    \/ Unmount
    \/ \E delta \in Deltas : ConfidenceTick(delta)
    \/ \E data \in HostPayloads : Notify(data)

SpecLifecycle == InitHUD /\ [][NextLifecycle]_vars

\* the listener over a wide set of owner names
NextClassify ==
    \/ Mount
    \/ \E data \in WidePayloads : Notify(data)

SpecClassify == InitHUD /\ [][NextClassify]_vars

----------------------------------------------------------------------------
\* Properties

\* C1: every firing of the confidence timer, from the current value and with
\* any delta in [-5,+5], yields a value in [80,100]; once the timer has fired,
\* confidence is within [80,100] (before that it is the initial 0).
C1_ConfidenceClamped ==
    /\ \A delta \in Deltas : ConfidenceUpdate(confidence, delta) \in 80..100
    /\ ticked => confidence \in 80..100
    /\ ~ticked => confidence = 0

\* the timer has fired often enough to reach the upper clamp
C1_Witness == ticked /\ confidence = 100

\* the precedence table of the classification: a rule matches a name when the
\* lower-cased name contains one of its ci keywords or the name as given
\* contains one of its cs keywords
RuleTable ==
    << [ci |-> {"code"},    cs |-> {"Terminal"}, label |-> "Coding"],
       [ci |-> {"chrome"},  cs |-> {"browser"},  label |-> "Browsing / Research"],
       [ci |-> {"slack"},   cs |-> {"whatsapp"}, label |-> "Communication"],
       [ci |-> {"notepad"}, cs |-> {"text"},     label |-> "Drafting"],
       [ci |-> {"calc"},    cs |-> {},           label |-> "Calculation"] >>

RuleMatches(rule, name) ==
    \/ \E k \in rule.ci : includes(toLowerCase(name), k)
    \/ \E k \in rule.cs : includes(name, k)

FirstMatchLabel(name) ==
    IF \E i \in DOMAIN RuleTable : RuleMatches(RuleTable[i], name)
    THEN LET first == CHOOSE i \in DOMAIN RuleTable :
                          /\ RuleMatches(RuleTable[i], name)
                          /\ \A j \in 1..(i - 1) : ~RuleMatches(RuleTable[j], name)
         IN RuleTable[first].label
    ELSE "General Task"

\* the name a handled payload is displayed under
ShownName(payload) == IF payload.owner.t = "string" /\ payload.owner.v # ""
                      THEN payload.owner.v ELSE "Unknown"

Examples ==
    { <<"Visual Studio Code", "Coding">>, <<"Google Chrome", "Browsing / Research">>,
      <<"Slack", "Communication">>, <<"Notepad", "Drafting">>,
      <<"Calculator", "Calculation">>, <<"Spotify", "General Task">> }

\* C2: after the listener has handled a notification, intent is the label of
\* the first rule of the fixed order code/Terminal, chrome/browser,
\* slack/whatsapp, notepad/text, calc that matches the owner name, and General
\* Task when none does; the six named examples get the named labels.
C2_FirstMatchWins ==
    lastData # <<>> =>
        /\ intent = FirstMatchLabel(ShownName(lastData[1]))
        /\ \A e \in Examples : ShownName(lastData[1]) = e[1] => intent = e[2]

\* a name matching rule 1 and rule 2 has been handled
C2_Witness ==
    /\ lastData # <<>>
    /\ RuleMatches(RuleTable[1], ShownName(lastData[1]))
    /\ RuleMatches(RuleTable[2], ShownName(lastData[1]))
    /\ intent = "Coding"

ContainsAnyCase(name, keyword) == includes(toLowerCase(name), toLowerCase(keyword))

\* some keyword of rules 1..n occurs in the name, in any letter case
EarlierRuleMatches(name, n) ==
    \E j \in 1..n : \E k \in RuleTable[j].ci \cup RuleTable[j].cs : ContainsAnyCase(name, k)

\* C3: the tests of rules 3 and 4 are case-insensitive for every keyword: a
\* handled owner name that contains 'whatsapp' in any letter case and matches
\* no earlier rule is classified Communication, and one that contains 'text'
\* in any letter case and matches no earlier rule is classified Drafting.
C3_CaseInsensitive ==
    lastData # <<>> =>
        LET name == ShownName(lastData[1])
        IN /\ (ContainsAnyCase(name, "whatsapp") /\ ~EarlierRuleMatches(name, 2))
                  => intent = "Communication"
           /\ (ContainsAnyCase(name, "text") /\ ~EarlierRuleMatches(name, 3))
                  => intent = "Drafting"

\* C4: a handled notification whose owner name is undefined or empty leaves
\* appContext "Unknown" and intent General Task.
C4_MissingOwner ==
    (lastData # <<>> /\ (lastData[1].owner.t = "undefined" \/ lastData[1].owner.v = ""))
        => (appContext = "Unknown" /\ intent = "General Task")

\* a notification without an owner name has been handled
C4_Witness ==
    /\ lastData # <<>>
    /\ lastData[1].owner.t = "undefined"
    /\ appContext = "Unknown"

\* C5: appContext and intent are what the most recently handled notification
\* alone produces from the initial component state, whatever was handled before.
C5_LatestOnly ==
    lastData # <<>> =>
        LET alone == OnActiveWindowChange(InitialHud, lastData[1])
        IN appContext = alone.appContext /\ intent = alone.intent

\* at least two notifications were handled, the last two with different payloads
C5_Witness == handled = 2 /\ ~repeated /\ intent = "Communication"

\* C6: a step that handles the payload handled just before it leaves appContext
\* and intent as they were.
C6_Idempotent ==
    [][(last' = "notify" /\ lastData # <<>> /\ lastData' = lastData)
          => (appContext' = appContext /\ intent' = intent)]_vars

\* the same payload has been handled twice in a row
C6_Witness == repeated /\ handled = 2 /\ intent = "Coding"

HitTestMode(h) == IF h.ignore THEN "ClickThrough" ELSE "Capturing"

\* C7: HitTestMode is a two-state machine: a newly created window is
\* ClickThrough with forwarding; handling a 'set-ignore-mouse-events' message
\* leaves the mode named by its payload (true: ClickThrough with forwarding,
\* false: Capturing); nothing else changes the mode, and from either mode a
\* message leads to either mode (no terminal state).
C7_HitTestMachine ==
    /\ [](\A arg \in BOOLEAN :
            HitTestMode(IpcMessage(hitTest, "set-ignore-mouse-events", arg))
                = IF arg THEN "ClickThrough" ELSE "Capturing")
    /\ [][/\ created' # created => hitTest' = [ignore |-> TRUE, forward |-> TRUE]
          /\ last' = "control" =>
                /\ HitTestMode(hitTest') =
                       IF Head(ctrlQueue).arg THEN "ClickThrough" ELSE "Capturing"
                /\ Head(ctrlQueue).arg => hitTest'.forward
          /\ hitTest' # hitTest => last' \in {"control", "ready", "activate"}]_vars

\* a capture request has been handled and a release request is next
C7_Witness ==
    /\ last = "control"
    /\ mainWindow = "window"
    /\ HitTestMode(hitTest) = "Capturing"
    /\ ctrlQueue # <<>> /\ Head(ctrlQueue).arg

ControlMessage(ignore) == [channel |-> "set-ignore-mouse-events", arg |-> ignore]

\* the control messages the pointer events call for, after the one of the mount
ExpectedControls ==
    (IF mounted THEN <<ControlMessage(TRUE)>> ELSE <<>>)
    \o [i \in 1..Len(pointerLog) |-> ControlMessage(pointerLog[i] = "leave")]

\* C8: with the bridge available the display layer has sent exactly: one
\* set-ignore-mouse-events(true) at mount, first, then one message per pointer
\* event in order, false for a pointer-enter and true for a pointer-leave.
C8_OneControlPerEvent == bridge => sentCtl = ExpectedControls

\* mount, pointer-enter and pointer-leave have happened with the bridge
C8_Witness == bridge /\ mounted /\ pointerLog = <<"enter", "leave">>

\* C9: a poll tick whose query rejects or resolves to nothing sends no
\* notification, lets no exception escape, issues no further query, and leaves
\* appContext and intent as they were; the displayed state changes only when
\* a sent notification is handled (or the renderer starts or ends).
C9_FailedTickSkipped ==
    [][/\ last' \in {"query-nothing", "query-threw"} =>
             /\ notifQueue' = notifQueue
             /\ sentBy' = sentBy
             /\ ~crashed'
             /\ inflight' \subseteq inflight
             /\ Cardinality(inflight') = Cardinality(inflight) - 1
             /\ ticks' = ticks
             /\ appContext' = appContext /\ intent' = intent
       /\ (appContext' # appContext \/ intent' # intent) =>
             \/ last' = "notify" /\ notifQueue # <<>>
             \/ last' \in {"close", "ready", "activate"}]_vars

\* a tick failed after an earlier tick's snapshot had been rendered
C9_Witness ==
    /\ last = "query-threw"
    /\ appContext = "Code.exe" /\ intent = "Coding"
    /\ ticks = 2

\* C10: while the 'active-win' module of a createWindow call is not loaded
\* (still loading, or failed for good), its poll timer has issued no query and
\* sent no notification, and no exception has escaped; a failed load stays
\* failed.
C10_NoModuleNoNotification ==
    /\ [](/\ ~crashed
          /\ \A i \in Windows : activeWin[i] # "loaded" =>
                /\ sentBy[i] = 0
                /\ \A q \in inflight : q.inst # i)
    /\ [][\A i \in Windows : activeWin[i] = "failed" => activeWin'[i] = "failed"]_vars

\* a poll tick fired after the load of the module had failed
C10_Witness ==
    /\ activeWin[1] = "failed"
    /\ last = "tick-skipped"
    /\ mainWindow = "window"
    /\ ticks = MaxTicks

\* C11: without the bridge (no window.require) mount, pointer-enter and
\* pointer-leave send nothing, no listener is registered, appContext stays
\* 'Detecting...' and intent stays 'Idle', while the confidence timer of the
\* mounted component runs.
C11_NoBridgeNoOps ==
    ~bridge =>
        /\ sentCtl = <<>> /\ ctrlQueue = <<>>
        /\ listeners = 0
        /\ appContext = "Detecting..." /\ intent = "Idle"
        /\ mounted => interval
        /\ mounted => \A delta \in Deltas : ENABLED ConfidenceTick(delta)

\* without the bridge: mounted, pointer entered and left, the timer has fired
C11_Witness ==
    /\ ~bridge /\ mounted
    /\ pointerLog = <<"enter", "leave">>
    /\ ticked /\ confidence > 80

\* C12: closing the window stops its poll timer: only the timer of the open
\* window is active, so none is active while no window is open and at most
\* one is active at any time, across close and re-creation.
C12_TimerStopsWithWindow ==
    /\ ActiveTimers \subseteq (IF mainWindow = "window" THEN {created} ELSE {})
    /\ Cardinality(ActiveTimers) <= 1

\* C13: until a notification is handled appContext is 'Detecting...' and
\* intent is 'Idle'; after a notification with a non-empty owner name is
\* handled, appContext is that name in full and intent is its classification;
\* owner 'Code.exe' gives appContext 'Code.exe' and intent 'Coding'.
C13_EndToEnd ==
    /\ handled = 0 => (appContext = "Detecting..." /\ intent = "Idle")
    /\ (lastData # <<>> /\ lastData[1].owner.t = "string" /\ lastData[1].owner.v # "") =>
           /\ appContext = lastData[1].owner.v
           /\ intent = FirstMatchLabel(lastData[1].owner.v)
           /\ lastData[1].owner.v = "Code.exe" => intent = "Coding"

\* the snapshot of 'Code.exe' has been handled
C13_Witness ==
    /\ lastData # <<>> /\ lastData[1].owner = Str("Code.exe")
    /\ appContext = "Code.exe" /\ intent = "Coding"

\* C14: a firing of a poll timer issues at most one query; a notification is
\* sent only by the completion of a query that returned a result, one per
\* completion, carrying {title, owner: owner.name, app: owner.path} of that
\* result; no tick's snapshot is sent twice.
C14_AtMostOncePerTick ==
    /\ [](/\ \A m, n \in 1..Len(sentTicks) : sentTicks[m] = sentTicks[n] => m = n
          /\ \A n \in 1..Len(sentTicks) :
                 /\ sentTicks[n] \in 1..ticks
                 /\ \A q \in inflight : q.tick # sentTicks[n]
          /\ \A q1, q2 \in inflight : q1.tick = q2.tick => q1 = q2
          /\ Cardinality(inflight) + Len(sentTicks) <= ticks)
    /\ [][/\ ticks' # ticks =>
                /\ ticks' = ticks + 1
                /\ notifQueue' = notifQueue
                /\ \/ inflight' = inflight
                   \/ \E i \in Windows : inflight' = inflight \cup {[inst |-> i, tick |-> ticks']}
          /\ Len(notifQueue') > Len(notifQueue) =>
                /\ last' = "query-result"
                /\ \E r \in FgResults :
                       notifQueue' = Append(notifQueue,
                           [title |-> r.title, owner |-> r.owner.name, app |-> r.owner.path])
                /\ \E q \in inflight :
                       /\ inflight' = inflight \ {q}
                       /\ sentTicks' = Append(sentTicks, q.tick)
          /\ last' \in {"query-nothing", "query-threw", "query-send-threw"} =>
                /\ notifQueue' = notifQueue
                /\ sentTicks' = sentTicks]_vars

\* two ticks have each sent their snapshot
C14_Witness == last = "query-result" /\ Len(sentTicks) = 2 /\ inflight = {}

\* C15: the hit-test mode of the window changes only when a
\* 'set-ignore-mouse-events' message is handled: poll ticks, completions and
\* failures of queries, the sending and handling of notifications and
\* 'ipc-message's on other channels leave it as it is.
C15_ModeChangedByControlOnly ==
    [][/\ last' \in {"tick", "tick-skipped", "query-result", "query-nothing",
                     "query-threw", "query-send-threw", "notify", "dropped",
                     "other-ipc-true", "other-ipc-false", "import-ok", "import-failed"}
             => hitTest' = hitTest
       /\ (created' = created /\ hitTest' # hitTest) => last' = "control"]_vars

\* a message on another channel with payload true has left the window Capturing
C15_Witness ==
    /\ last = "other-ipc-true"
    /\ HitTestMode(hitTest) = "Capturing"
    /\ sentTicks # <<>>

\* C16: a confidence timer tick leaves appContext and intent unchanged, the
\* handling of a notification leaves confidence unchanged, and neither sends
\* a control message.
C16_IndependentPaths ==
    [][/\ last' = "confidence" =>
             /\ appContext' = appContext /\ intent' = intent
             /\ ctrlQueue' = ctrlQueue /\ sentCtl' = sentCtl
       /\ last' = "notify" =>
             /\ confidence' = confidence
             /\ ctrlQueue' = ctrlQueue /\ sentCtl' = sentCtl
       /\ confidence' # confidence => last' = "confidence"
       /\ (appContext' # appContext \/ intent' # intent) => last' = "notify"]_vars

\* a notification has been handled after the timer had moved confidence
C16_Witness ==
    /\ last = "notify"
    /\ ticked /\ confidence = 90
    /\ appContext = "WhatsApp"

\* C17: with control messages handled in the order sent, once none is pending
\* the window is Capturing exactly when the last pointer event on the HUD root
\* was a pointer-enter; with no pointer event yet, and after a pointer-leave,
\* it is ClickThrough.
C17_ModeFollowsPointer ==
    (mainWindow = "window" /\ ctrlQueue = <<>>) =>
        HitTestMode(hitTest) =
            IF pointerLog # <<>> /\ pointerLog[Len(pointerLog)] = "enter"
            THEN "Capturing" ELSE "ClickThrough"

\* enter, leave, enter have all been handled
C17_Witness ==
    /\ mainWindow = "window" /\ ctrlQueue = <<>>
    /\ last = "control"
    /\ pointerLog = <<"enter", "leave", "enter">>
    /\ HitTestMode(hitTest) = "Capturing"

\* C18: snapshots are sent to the display layer in the order their poll ticks
\* fired: a snapshot of an earlier tick is never sent after the snapshot of a
\* later tick.
C18_SentInTickOrder ==
    \A m, n \in 1..Len(sentTicks) : m < n => sentTicks[m] < sentTicks[n]

\* C19: when the window was closed (mainWindow is null) while the query of a
\* poll tick is in flight, the completion of that query does not crash the
\* host and sends no notification, and a tick that fires while no window
\* exists issues no query.
C19_ClosedWhileInFlight ==
    /\ [](~crashed)
    /\ [][/\ (mainWindow = "null" /\ inflight' # inflight /\ inflight' \subseteq inflight) =>
                 /\ notifQueue' = notifQueue
                 /\ sentBy' = sentBy /\ sentTicks' = sentTicks
                 /\ ~crashed'
          /\ (mainWindow = "null" /\ ticks' = ticks + 1) =>
                 /\ inflight' = inflight
                 /\ last' = "tick-skipped"]_vars

\* a query completed with a result after the window was closed
C19_Witness ==
    /\ last = "query-send-threw" /\ mainWindow = "null"
    /\ ~crashed /\ notifQueue = <<>> /\ ticks >= 1

\* C20: 'Terminal' and 'browser' are tested against the owner name as received:
\* a name containing the literal 'Terminal' is Coding; a name containing the
\* literal 'browser' that contains neither 'code' in any letter case nor
\* 'Terminal' is Browsing / Research; and a name that contains these two words
\* only in another letter case gets neither label from them.
C20_OriginalCaseTokens ==
    lastData # <<>> =>
        LET name == ShownName(lastData[1])
            code == ContainsAnyCase(name, "code")
        IN /\ includes(name, "Terminal") => intent = "Coding"
           /\ (includes(name, "browser") /\ ~code /\ ~includes(name, "Terminal"))
                  => intent = "Browsing / Research"
           /\ (~code /\ ~includes(name, "Terminal")) => intent # "Coding"
           /\ (~ContainsAnyCase(name, "chrome") /\ ~includes(name, "browser"))
                  => intent # "Browsing / Research"

\* a name with the literal 'browser' and a lower-case 'terminal' was classified
C20_Witness ==
    /\ lastData # <<>>
    /\ ShownName(lastData[1]) = "terminalbrowser"
    /\ intent = "Browsing / Research"

\* the labels the component can show as intent
IntentLabels ==
    { "Coding", "Browsing / Research", "Communication", "Drafting", "Calculation",
      "General Task", "Idle" }

\* C21: intent is always one of the seven labels, and it is 'Idle' exactly
\* until the component has handled its first notification: after any
\* notification has been handled intent is never 'Idle' again.
C21_IntentLabels ==
    /\ intent \in IntentLabels
    /\ handled = 0 => intent = "Idle"
    /\ handled >= 1 => intent # "Idle"

\* several notifications handled, the last one matching no keyword
C21_Witness == handled = 2 /\ repeated /\ intent = "General Task"

\* C22: at most one overlay window exists at any time: 'ready' creates one
\* window, 'activate' creates a window only when mainWindow is null (the
\* previous window was closed), and every newly created window starts
\* ClickThrough with forwarding.
C22_AtMostOneWindow ==
    /\ [](/\ Cardinality(openWindows) <= 1
          /\ mainWindow = "window" <=> openWindows = {created}
          /\ mainWindow # "window" => openWindows = {})
    /\ [][/\ last' = "ready" =>
                 (openWindows = {} /\ Cardinality(openWindows') = 1)
          /\ last' = "activate" =>
                 (mainWindow = "null" /\ openWindows = {} /\ Cardinality(openWindows') = 1)
          /\ openWindows' # openWindows =>
                 last' \in {"ready", "activate", "close"}
          /\ created' # created =>
                 (HitTestMode(hitTest') = "ClickThrough" /\ hitTest'.forward)]_vars

\* the second window, created by 'activate' after the first was closed
C22_Witness ==
    /\ last = "activate" /\ created = 2
    /\ openWindows = {2} /\ mainWindow = "window"
    /\ HitTestMode(hitTest) = "ClickThrough"

\* C23: the confidence timer is bound to the component's lifetime: unmounting
\* cancels it, so while the component is unmounted no timer is active, the
\* timer does not fire and confidence does not change.
C23_TimerCancelledOnUnmount ==
    /\ [](interval <=> mounted)
    /\ [][/\ last' = "unmount" => ~interval'
          /\ last' = "confidence" => mounted
          /\ ~mounted => confidence' = confidence]_vars

\* the component has unmounted: its timer is gone and cannot fire
C23_Witness ==
    /\ last = "unmount" /\ ~mounted /\ ~interval
    /\ ~ENABLED (\E delta \in Deltas : ConfidenceTick(delta))

\* C24: the subscription to 'active-window-change' is bound to the component's
\* lifetime: across mount, unmount and remount at most one listener registered
\* by the HUD is active, none while the component is unmounted, and no
\* notification is handled by the listener of an unmounted instance.
C24_ListenerBoundToLifetime ==
    /\ listeners <= 1
    /\ ~mounted => listeners = 0
    /\ last # "notify-stale"

\* C25: when the app is packaged, every created window has its content loaded
\* from the bundled local resource, whether or not the import of the
\* static-serving module had completed when the window was created.
C25_ProductionLoadsBundle ==
    (packaged /\ mainWindow = "window") => content = "bundle"

\* C26: confidence is a bounded walk: the first firing of the timer after
\* mount takes it from the initial 0 to exactly 80 whatever the delta, and
\* every later firing changes it by at most 5.
C26_BoundedWalk ==
    /\ [](\A delta \in Deltas : ConfidenceUpdate(InitialHud.confidence, delta) = 80)
    /\ [][last' = "confidence" =>
             IF ~ticked
             THEN confidence = 0 /\ confidence' = 80
             ELSE /\ confidence' - confidence <= 5
                  /\ confidence - confidence' <= 5]_vars

\* a later firing moved confidence up by the largest step
C26_Witness ==
    /\ last = "confidence" /\ ticked /\ mounted
    /\ confidence = 85

====
